---- MODULE Spec2Model ----
(***************************************************************************)
(* rede: the placeholder renderer (placeholders/src/renderer.rs) and the   *)
(* body schema (parser/src/schema/body.rs).                                *)
(*                                                                         *)
(* A string is a sequence of characters; a character is a one-letter TLA+  *)
(* string.  "LF" stands for a line feed (a byte no header value may hold)  *)
(* and "OBS" for a byte >= 0x80 (legal in a header value, but not text).   *)
(***************************************************************************)
EXTENDS Naturals, Sequences, FiniteSets, TLC

VARIABLES
    values,        \* the &[(String, String)] slice handed to Renderer::new
    placeholders,  \* Renderer.placeholders: the catalog, in iteration order
    values_map,    \* Renderer.values_map
    request,       \* the Request handed to render
    url,           \* render's local `url`
    headers,       \* render's local `headers`
    query_params,  \* render's local `query_params`
    body,          \* render's local `body`
    i,             \* position of the outer loop (catalog entry)
    j,             \* position of the inner loop (location of that entry)
    pc,            \* "new" | "loop" | "ok" | "err" | "panic" | "parse" | "parsed"
    result,        \* what render returned: a Request, or NoRequest
    doc,           \* the `body` table of a source document
    parsed         \* what deserialising doc gave

vars == <<values, placeholders, values_map, request, url, headers,
          query_params, body, i, j, pc, result, doc, parsed>>

(***************************************************************************)
(* Bounds of the model.                                                    *)
(***************************************************************************)
MaxQP == 2
MaxValues == 2
MaxKeys == 2

(***************************************************************************)
(* Strings.                                                                *)
(***************************************************************************)
Names == {"a", "b"}

\* format!("{{{{{key}}}}}"): two opening braces, the key, two closing braces.
Placeholder(key) == <<"{", "{", key, "}", "}">>

\* The positions at which t occurs in s.
Occurrences(s, t) ==
    {p \in 1..Len(s) : p + Len(t) - 1 <= Len(s) /\ SubSeq(s, p, p + Len(t) - 1) = t}

\* str::replacen(from, to, 1): only the first match is replaced.
replace_first(s, from, to) ==
    IF Occurrences(s, from) = {} THEN s
    ELSE LET p == CHOOSE q \in Occurrences(s, from) :
                    \A r \in Occurrences(s, from) : q <= r
         IN  SubSeq(s, 1, p - 1) \o to \o SubSeq(s, p + Len(from), Len(s))

\* str::replace: every non-overlapping match, found left to right, is replaced.
RECURSIVE replace(_, _, _)
replace(s, from, to) ==
    IF Len(s) < Len(from) THEN s
    ELSE IF SubSeq(s, 1, Len(from)) = from
         THEN to \o replace(SubSeq(s, Len(from) + 1, Len(s)), from, to)
         ELSE <<s[1]>> \o replace(Tail(s), from, to)

\* HeaderValue::to_str: only visible ASCII reads as text.
to_str_ok(hv) == \A k \in 1..Len(hv) : hv[k] \notin {"OBS", "LF"}

\* str::parse::<HeaderValue>: control characters are rejected.
parse_ok(s) == \A k \in 1..Len(s) : s[k] # "LF"

(***************************************************************************)
(* The data model.                                                         *)
(***************************************************************************)
Loc(kind, key) == [kind |-> kind, key |-> key]
LocUrl == Loc("Url", "")
LocBody == Loc("Body", "")
Locations == {LocUrl, Loc("Headers", "h"), Loc("QueryParams", "p"),
              Loc("BodyForm", "f"), LocBody}

NoRequest == [none |-> TRUE]
Ok == [ok |-> TRUE]
Err == [ok |-> FALSE]

BodyNone == [kind |-> "None", text |-> <<>>, form |-> <<>>]
BodyRaw(content) == [kind |-> "Raw", text |-> content, form |-> <<>>]
BodyBinary(path) == [kind |-> "Binary", text |-> path, form |-> <<>>]
BodyFormData(form) == [kind |-> "FormData", text |-> <<>>, form |-> form]
BodyXFormUrlEncoded(form) == [kind |-> "XFormUrlEncoded", text |-> <<>>, form |-> form]
FormKinds == {"FormData", "XFormUrlEncoded"}

\* HashMap::get / HeaderMap::get_mut / Iterator::find: Some(v) or None.
Some(v) == [some |-> TRUE, v |-> v]
None == [some |-> FALSE, v |-> <<>>]

\* get(key).cloned().unwrap_or_default(): a missing name reads as "".
values_map_get_or_default(map, key) ==
    IF key \in DOMAIN map THEN Some(map[key]) ELSE Some(<<>>)

values_map_get(map, key) ==
    IF key \in DOMAIN map THEN Some(map[key]) ELSE None

\* entry(key).or_insert(value): the first pair of a name is kept.
RECURSIVE collect_first(_)
collect_first(vs) ==
    IF vs = <<>> THEN <<>>
    ELSE LET rest == collect_first(Tail(vs))
             first == vs[1]
         IN  [k \in DOMAIN rest \cup {first[1]} |->
                 IF k = first[1] THEN first[2] ELSE rest[k]]

\* Renderer::new: the pairs are collected into a HashMap, one insert after
\* the other; an insert replaces what the key held.
RECURSIVE collect(_)
collect(vs) ==
    IF vs = <<>> THEN <<>>
    ELSE LET rest == collect(SubSeq(vs, 1, Len(vs) - 1))
             last == vs[Len(vs)]
         IN  [k \in DOMAIN rest \cup {last[1]} |->
                 IF k = last[1] THEN last[2] ELSE rest[k]]

\* iter().rev(): the catalog walked from its end.
entry_at_reversed(catalog, n) == catalog[Len(catalog) + 1 - n]

\* The entry the outer loop visits at its n-th turn.
entry_at(catalog, n) == catalog[n]

\* render_headers with the failures swallowed: the header keeps its value.
render_headers_lenient(header_map, header, placeholder, val) ==
    IF /\ header \in DOMAIN header_map
       /\ to_str_ok(header_map[header])
       /\ parse_ok(replace(header_map[header], placeholder, val))
    THEN [st |-> Ok,
          map |-> [header_map EXCEPT
                     ![header] = replace(header_map[header], placeholder, val)]]
    ELSE [st |-> Ok, map |-> header_map]

\* render_headers: Ok with the new map, or Err.
render_headers(header_map, header, placeholder, val) ==
    IF header \in DOMAIN header_map
    THEN IF ~to_str_ok(header_map[header])
         THEN [st |-> Err, map |-> header_map]
         ELSE LET new_value == replace(header_map[header], placeholder, val)
              IN  IF ~parse_ok(new_value)
                  THEN [st |-> Err, map |-> header_map]
                  ELSE [st |-> Ok,
                        map |-> [header_map EXCEPT ![header] = new_value]]
    ELSE [st |-> Ok, map |-> header_map]

\* The first index of a pair with this key, 0 when there is none.
find_first(qp, key) ==
    IF \E k \in 1..Len(qp) : qp[k][1] = key
    THEN CHOOSE k \in 1..Len(qp) :
            qp[k][1] = key /\ \A m \in 1..(k - 1) : qp[m][1] # key
    ELSE 0

\* iter_mut().filter(..).for_each(..): every pair with the key is rewritten.
render_query_params_all(qp, key, placeholder, val) ==
    [k \in 1..Len(qp) |->
        IF qp[k][1] = key
        THEN <<qp[k][1], replace(qp[k][2], placeholder, val)>>
        ELSE qp[k]]

\* Location::QueryParams: replace in the value of the first pair found.
render_query_params(qp, key, placeholder, val) ==
    LET k == find_first(qp, key)
    IN  IF k = 0 THEN qp
        ELSE [qp EXCEPT ![k] = <<qp[k][1], replace(qp[k][2], placeholder, val)>>]

\* render_form_data and render_form_urlencoded: replace in the field's text.
render_form(form, key, placeholder, val) ==
    IF key \in DOMAIN form
    THEN [form EXCEPT ![key].v = replace(form[key].v, placeholder, val)]
    ELSE form

\* `_ => {}` in place of the panic: any other body is left alone.
render_body_form_lenient(b, key, placeholder, val) ==
    IF b.kind \in FormKinds
    THEN [panic |-> FALSE,
          body |-> [b EXCEPT !.form = render_form(b.form, key, placeholder, val)]]
    ELSE [panic |-> FALSE, body |-> b]

\* Location::BodyForm: a form body is rewritten, any other body panics.
render_body_form(b, key, placeholder, val) ==
    IF b.kind \in FormKinds
    THEN [panic |-> FALSE,
          body |-> [b EXCEPT !.form = render_form(b.form, key, placeholder, val)]]
    ELSE [panic |-> TRUE, body |-> b]

\* Request { url, headers, query_params, body, ..Default::default() }.
build_request_default(req, u, h, qp, b) ==
    [method |-> "GET", url |-> u, http_version |-> "HTTP/1.1",
     metadata |-> <<>>, headers |-> h, query_params |-> qp,
     variables |-> <<>>, body |-> b]

\* The Request that render builds at its end.
build_request(req, u, h, qp, b) ==
    [method |-> req.method, url |-> u, http_version |-> req.http_version,
     metadata |-> req.metadata, headers |-> h, query_params |-> qp,
     variables |-> req.variables, body |-> b]

(***************************************************************************)
(* Inputs.                                                                 *)
(***************************************************************************)
TokA == Placeholder("a")
TokB == Placeholder("b")

ValueSet == {<<"x">>, TokB, <<"LF">>}
PairSet == ({"a"} \X ValueSet) \cup {<<"b", <<"x">>>>}

RECURSIVE SeqsUpTo(_, _)
SeqsUpTo(S, n) ==
    IF n = 0 THEN {<<>>}
    ELSE LET shorter == SeqsUpTo(S, n - 1)
         IN  shorter \cup {Append(s, e) : s \in {t \in shorter : Len(t) = n - 1}, e \in S}

\* Every slice of at most MaxValues pairs, repeated names included.
ValueSlices == SeqsUpTo(PairSet, MaxValues)
\* The slices that name nobody twice, "a" first.
PlainSlices ==
    {vs \in SeqsUpTo(PairSet, 2) :
        \A m, n \in 1..Len(vs) : m < n => vs[m][1] = "a" /\ vs[n][1] = "b"}

UrlSet == {TokA \o <<"x">> \o TokA, TokA \o TokB, <<"{">> \o TokA \o <<"}">>}
HeaderSet == {[g |-> TokA],
              [h |-> <<"x">> \o TokA, g |-> TokA],
              [h |-> <<"OBS">> \o TokA, g |-> TokA]}
QuerySet == SeqsUpTo({"p", "q"} \X {TokA}, MaxQP)
Text(v) == [tag |-> "Text", v |-> v]
File(v) == [tag |-> "File", v |-> v]
Str(v) == [tag |-> "Str", v |-> v]
BodySet == {BodyNone, BodyRaw(TokA), BodyBinary(TokA),
            BodyFormData([f |-> Text(TokA), e |-> File(TokA)]),
            BodyFormData([e |-> File(TokA)]),
            BodyXFormUrlEncoded([f |-> Str(TokA), e |-> Str(TokA)])}

\* One request whose every field holds tokens.
DefaultRequest ==
    [method |-> "GET", url |-> TokA \o TokB, http_version |-> "HTTP/1.1",
     metadata |-> <<>>, headers |-> [h |-> <<"x">> \o TokA, g |-> TokA],
     query_params |-> <<<<"p", TokA>>>>, variables |-> <<>>,
     body |-> BodyFormData([f |-> Text(TokA), e |-> File(TokA)])]

LocLists ==
    {<<l>> : l \in Locations}
    \cup {<<LocUrl, Loc("Headers", "h")>>,
          <<Loc("BodyForm", "f"), LocUrl>>,
          <<Loc("QueryParams", "p"), LocBody>>}

Entry(name, locs) == [name |-> name, locs |-> locs]
Catalogs ==
    {<<>>}
    \cup {<<Entry(n, ls)>> : n \in Names, ls \in LocLists}
    \cup {<<Entry(n, ls), Entry(m, ms)>> :
            <<n, m>> \in {<<"a", "b">>, <<"b", "a">>}, ls \in LocLists, ms \in LocLists}

KindsOf(catalog) ==
    {catalog[n].locs[m].kind : <<n, m>> \in
        {p \in (1..Len(catalog)) \X (1..2) : p[2] <= Len(catalog[p[1]].locs)}}

\* The requests rendered with a catalog: a field that no location of the
\* catalog can reach is given its default.
RequestsFor(catalog) ==
    [method : {"GET", "POST"},
     url : IF "Url" \in KindsOf(catalog) THEN UrlSet ELSE {DefaultRequest.url},
     http_version : {"HTTP/1.1"},
     metadata : {<<>>},
     headers : IF "Headers" \in KindsOf(catalog)
               THEN HeaderSet ELSE {DefaultRequest.headers},
     query_params : IF "QueryParams" \in KindsOf(catalog)
                    THEN QuerySet ELSE {DefaultRequest.query_params},
     variables : {<<>>},
     body : IF "BodyForm" \in KindsOf(catalog) THEN BodySet ELSE {DefaultRequest.body}]

(***************************************************************************)
(* The renderer as a state machine.                                        *)
(***************************************************************************)
NoDoc == [body |-> <<>>, field |-> <<>>]

Start(vs, catalog, req, map, at, d) ==
    /\ values = vs
    /\ placeholders = catalog
    /\ values_map = map
    /\ request = req
    /\ url = req.url
    /\ headers = req.headers
    /\ query_params = req.query_params
    /\ body = req.body
    /\ i = 1
    /\ j = 1
    /\ pc = at
    /\ result = NoRequest
    /\ doc = d
    /\ parsed = NoRequest

\* A Renderer built by Renderer::new, and a Request about to be rendered.
Init ==
    \E vs \in PlainSlices, catalog \in Catalogs :
        \E req \in RequestsFor(catalog) :
            Start(vs, catalog, req, collect(vs), "loop", NoDoc)

InLoop == pc = "loop" /\ i <= Len(placeholders)
CurEntry == entry_at(placeholders, i)
CurVal == values_map_get(values_map, CurEntry.name)
CurLoc == CurEntry.locs[j]
AtLocation(kind) ==
    /\ InLoop
    /\ CurVal.some
    /\ j <= Len(CurEntry.locs)
    /\ CurLoc.kind = kind

\* The inner loop moves on; after the last location the outer loop does.
Advance ==
    IF j < Len(CurEntry.locs)
    THEN i' = i /\ j' = j + 1
    ELSE i' = i + 1 /\ j' = 1

Frame == UNCHANGED <<values, placeholders, values_map, request, doc, parsed>>

\* `if let Some(val) = val` fails: the entry is passed over.
SkipName ==
    /\ InLoop
    /\ ~CurVal.some
    /\ i' = i + 1
    /\ j' = 1
    /\ UNCHANGED <<url, headers, query_params, body, pc, result>>
    /\ Frame

ApplyUrl ==
    /\ AtLocation("Url")
    /\ url' = replace(url, Placeholder(CurEntry.name), CurVal.v)
    /\ Advance
    /\ UNCHANGED <<headers, query_params, body, pc, result>>
    /\ Frame

ApplyHeaders ==
    /\ AtLocation("Headers")
    /\ LET r == render_headers(headers, CurLoc.key, Placeholder(CurEntry.name), CurVal.v)
       IN  IF r.st.ok
           THEN /\ headers' = r.map
                /\ Advance
                /\ UNCHANGED <<pc, result>>
           ELSE /\ pc' = "err"
                /\ UNCHANGED <<headers, i, j, result>>
    /\ UNCHANGED <<url, query_params, body>>
    /\ Frame

ApplyQueryParams ==
    /\ AtLocation("QueryParams")
    /\ query_params' = render_query_params(query_params, CurLoc.key,
                                           Placeholder(CurEntry.name), CurVal.v)
    /\ Advance
    /\ UNCHANGED <<url, headers, body, pc, result>>
    /\ Frame

ApplyBodyForm ==
    /\ AtLocation("BodyForm")
    /\ LET r == render_body_form(body, CurLoc.key, Placeholder(CurEntry.name), CurVal.v)
       IN  IF r.panic
           THEN /\ pc' = "panic"
                /\ UNCHANGED <<body, i, j, result>>
           ELSE /\ body' = r.body
                /\ Advance
                /\ UNCHANGED <<pc, result>>
    /\ UNCHANGED <<url, headers, query_params>>
    /\ Frame

\* Location::Body => { /* todo */ }
ApplyBody ==
    /\ AtLocation("Body")
    /\ Advance
    /\ UNCHANGED <<url, headers, query_params, body, pc, result>>
    /\ Frame

\* The loop is over: Ok(Request { .. }).
Finish ==
    /\ pc = "loop"
    /\ i > Len(placeholders)
    /\ result' = build_request(request, url, headers, query_params, body)
    /\ pc' = "ok"
    /\ UNCHANGED <<url, headers, query_params, body, i, j>>
    /\ Frame

Next ==
    \/ SkipName
    \/ ApplyUrl
    \/ ApplyHeaders
    \/ ApplyQueryParams
    \/ ApplyBodyForm
    \/ ApplyBody
    \/ Finish

Spec == Init /\ [][Next]_vars

(***************************************************************************)
(* Renderer::new, followed by one render.                                  *)
(***************************************************************************)
New ==
    /\ pc = "new"
    /\ values_map' = collect(values)
    /\ pc' = "loop"
    /\ UNCHANGED <<values, placeholders, request, url, headers, query_params,
                   body, i, j, result, doc, parsed>>

InitNew ==
    \E vs \in ValueSlices, catalog \in {c \in Catalogs : Len(c) = 1} :
        Start(vs, catalog, DefaultRequest, <<>>, "new", NoDoc)

NextNew ==
    \/ New
    \/ Next

SpecNew == InitNew /\ [][NextNew]_vars

(***************************************************************************)
(* The body schema: serde's externally tagged enums, read from a table.    *)
(* A table is a function from its keys to whether the value under the key  *)
(* deserialises as the payload of the variant the key names.               *)
(***************************************************************************)
BodyKeys ==
    {"none", "raw", "text", "binary", "file",
     "form_data", "form-data", "multipart_form_data", "multipart-form-data",
     "x_form_url_encoded", "x-www-form-urlencoded", "form_urlencoded",
     "form-urlencoded", "other"}
FormDataValueKeys == {"text", "file", "other"}

\* #[serde(rename_all = "snake_case")] and the aliases of enum Body.
body_variant(key) ==
    CASE key = "none" -> "None"
      [] key \in {"raw", "text"} -> "Raw"
      [] key \in {"binary", "file"} -> "Binary"
      [] key \in {"form_data", "form-data", "multipart_form_data",
                  "multipart-form-data"} -> "FormData"
      [] key \in {"x_form_url_encoded", "x-www-form-urlencoded",
                  "form_urlencoded", "form-urlencoded"} -> "XFormUrlEncoded"
      [] OTHER -> "unknown"

\* #[serde(rename_all = "lowercase")] of enum FormDataValue.
form_data_variant(key) ==
    CASE key = "text" -> "Text"
      [] key = "file" -> "File"
      [] OTHER -> "unknown"

Parsed(variant) == [ok |-> TRUE, variant |-> variant, error |-> ""]
Failed(error) == [ok |-> FALSE, variant |-> "", error |-> error]
WantedOne == "wanted exactly 1 element"

\* The one key of a table that holds exactly one.
only_key(table) == CHOOSE k \in DOMAIN table : TRUE

\* Deserialising a FormDataValue from the table under one form key.
deserialize_form_data_value(table) ==
    IF Cardinality(DOMAIN table) # 1 THEN Failed(WantedOne)
    ELSE LET key == only_key(table)
         IN  IF form_data_variant(key) = "unknown" THEN Failed("unknown variant")
             ELSE IF ~table[key] THEN Failed("invalid type")
             ELSE Parsed(form_data_variant(key))

\* An untagged reading that takes the first variant key it knows.
deserialize_body_first_known(d) ==
    IF \E k \in DOMAIN d.body : body_variant(k) # "unknown" /\ d.body[k]
    THEN Parsed(body_variant(CHOOSE k \in DOMAIN d.body :
                    body_variant(k) # "unknown" /\ d.body[k]))
    ELSE Failed(WantedOne)

\* #[serde(default)]: an empty table reads as the default variant.
deserialize_body_or_default(d) ==
    IF DOMAIN d.body = {} THEN Parsed("None")
    ELSE IF Cardinality(DOMAIN d.body) # 1 THEN Failed(WantedOne)
    ELSE LET key == only_key(d.body)
         IN  IF body_variant(key) = "unknown" THEN Failed("unknown variant")
             ELSE IF ~d.body[key] THEN Failed("invalid type")
             ELSE Parsed(body_variant(key))

\* Deserialising a Body from the `body` table of a document; d.field is
\* the table under a key of a form-data table.
deserialize_body(d) ==
    IF Cardinality(DOMAIN d.body) # 1 THEN Failed(WantedOne)
    ELSE LET key == only_key(d.body)
         IN  IF body_variant(key) = "unknown" THEN Failed("unknown variant")
             ELSE IF ~d.body[key] THEN Failed("invalid type")
             ELSE IF /\ body_variant(key) = "FormData"
                     /\ ~deserialize_form_data_value(d.field).ok
                  THEN deserialize_form_data_value(d.field)
             ELSE Parsed(body_variant(key))

Tables(keys) ==
    UNION {[ks -> BOOLEAN] : ks \in {s \in SUBSET keys : Cardinality(s) <= MaxKeys}}

Docs == [body : Tables(BodyKeys), field : Tables(FormDataValueKeys)]

InitParse ==
    \E d \in Docs : Start(<<>>, <<>>, DefaultRequest, <<>>, "parse", d)

Deserialize ==
    /\ pc = "parse"
    /\ parsed' = deserialize_body(doc)
    /\ pc' = "parsed"
    /\ UNCHANGED <<values, placeholders, values_map, request, url, headers,
                   query_params, body, i, j, result, doc>>

NextParse == Deserialize

SpecParse == InitParse /\ [][NextParse]_vars

(***************************************************************************)
(* Vocabulary of the properties.                                           *)
(***************************************************************************)
\* s with every occurrence of t replaced by v, position by position: an
\* occurrence's first character gives v, its other characters give nothing,
\* any other character gives itself.  (Two occurrences of a token {{n}}
\* cannot overlap: it begins with "{" and ends with "}".)
RECURSIVE SubstFrom(_, _, _, _)
SubstFrom(s, t, v, p) ==
    IF p > Len(s) THEN <<>>
    ELSE (IF p \in Occurrences(s, t) THEN v
          ELSE IF \E q \in Occurrences(s, t) : q < p /\ p < q + Len(t) THEN <<>>
          ELSE <<s[p]>>) \o SubstFrom(s, t, v, p + 1)
LiteralSubst(s, t, v) == SubstFrom(s, t, v, 1)

Count(s, t) == Cardinality(Occurrences(s, t))

\* The name has an entry in the values table.
Valued(n) == n \in DOMAIN values_map

HasLoc(e, loc) == \E m \in 1..Len(e.locs) : e.locs[m] = loc

\* Some catalog name with a value has this location.
Targeted(loc) ==
    \E k \in 1..Len(placeholders) :
        Valued(placeholders[k].name) /\ HasLoc(placeholders[k], loc)

\* The text a location points at in a request, if the request has it.
Site(req, loc) ==
    CASE loc.kind = "Url" -> Some(req.url)
      [] loc.kind = "Headers" ->
            IF loc.key \in DOMAIN req.headers THEN Some(req.headers[loc.key]) ELSE None
      [] loc.kind = "QueryParams" ->
            IF \E k \in 1..Len(req.query_params) : req.query_params[k][1] = loc.key
            THEN Some(req.query_params[
                    CHOOSE k \in 1..Len(req.query_params) :
                        /\ req.query_params[k][1] = loc.key
                        /\ \A m \in 1..(k - 1) : req.query_params[m][1] # loc.key][2])
            ELSE None
      [] loc.kind = "BodyForm" ->
            IF req.body.kind \in FormKinds /\ loc.key \in DOMAIN req.body.form
            THEN Some(req.body.form[loc.key].v)
            ELSE None
      [] OTHER -> None

\* The position of a name in the catalog, 0 when it is not there.
Pos(n) ==
    IF \E k \in 1..Len(placeholders) : placeholders[k].name = n
    THEN CHOOSE k \in 1..Len(placeholders) : placeholders[k].name = n
    ELSE 0

Failure == pc \in {"err", "panic"}

(***************************************************************************)
(* Properties of render.                                                   *)
(***************************************************************************)
\* C1: render changes only the sites targeted by a location of a catalog
\* name that has a value: method, http_version, metadata and variables of
\* the returned Request equal the input's, and so do the url, every header,
\* every query-parameter pair and every body field no such location
\* targets.  With an empty values table render returns Ok and the Request
\* equals the input, whatever the catalog holds.
C1_Frame ==
    /\ DOMAIN values_map = {} => ~Failure
    /\ pc = "ok" =>
        /\ result.method = request.method
        /\ result.http_version = request.http_version
        /\ result.metadata = request.metadata
        /\ result.variables = request.variables
        /\ ~Targeted(LocUrl) => result.url = request.url
        /\ DOMAIN result.headers = DOMAIN request.headers
        /\ \A h \in DOMAIN request.headers :
              ~Targeted(Loc("Headers", h)) => result.headers[h] = request.headers[h]
        /\ Len(result.query_params) = Len(request.query_params)
        /\ \A k \in 1..Len(request.query_params) :
              ~Targeted(Loc("QueryParams", request.query_params[k][1]))
                  => result.query_params[k] = request.query_params[k]
        /\ result.body.kind = request.body.kind
        /\ result.body.text = request.body.text
        /\ DOMAIN result.body.form = DOMAIN request.body.form
        /\ \A f \in DOMAIN request.body.form :
              ~Targeted(Loc("BodyForm", f)) => result.body.form[f] = request.body.form[f]
        /\ DOMAIN values_map = {} => result = request

\* A render that rewrote the url and left an untargeted header alone.
C1_Witness ==
    /\ pc = "ok"
    /\ result.url # request.url
    /\ result.method = "POST"
    /\ "h" \in DOMAIN request.headers
    /\ ~Targeted(Loc("Headers", "h"))
    /\ Count(request.headers["h"], TokA) > 0
    /\ result.headers = request.headers

\* C2: for a catalog name n without a value, every occurrence of {{n}} at
\* n's locations in the input is still there in the returned Request, also
\* when other names are substituted in the same field, and no failure is
\* raised while n is the name being processed.
C2_MissingValueKept ==
    /\ pc = "ok" =>
        \A k \in 1..Len(placeholders) :
            ~Valued(placeholders[k].name) =>
                \A m \in 1..Len(placeholders[k].locs) :
                    LET loc == placeholders[k].locs[m]
                        tok == <<"{", "{", placeholders[k].name, "}", "}">>
                    IN  Site(request, loc).some =>
                            /\ Site(result, loc).some
                            /\ Count(Site(result, loc).v, tok)
                                   >= Count(Site(request, loc).v, tok)
    /\ Failure => Valued(placeholders[i].name)

\* A name without a value keeps its token in a url that another name,
\* which has a value, rewrote.
C2_Witness ==
    /\ pc = "ok"
    /\ \E k \in 1..Len(placeholders) :
          /\ ~Valued(placeholders[k].name)
          /\ HasLoc(placeholders[k], LocUrl)
          /\ Count(request.url, <<"{", "{", placeholders[k].name, "}", "}">>) > 0
          /\ Count(result.url, <<"{", "{", placeholders[k].name, "}", "}">>) > 0
    /\ result.url # request.url

\* C3: a Url location of a name n with value v replaces every occurrence of
\* {{n}} in the url as it stands by v and keeps every other character in
\* place; when v holds no brace and no name character, no {{n}} remains.
C3_UrlStep ==
    AtLocation("Url") =>
        LET tok == <<"{", "{", CurEntry.name, "}", "}">>
            v == values_map[CurEntry.name]
        IN  /\ url' = LiteralSubst(url, tok, v)
            /\ (\A k \in 1..Len(v) : v[k] \notin {"{", "}"} \cup Names)
                    => Count(url', tok) = 0
C3_UrlReplaceAll == [][C3_UrlStep]_vars

\* Both occurrences of {{a}} in {{a}}x{{a}} were replaced by x.
C3_Witness ==
    /\ pc \in {"loop", "ok"}
    /\ Count(request.url, TokA) = 2
    /\ Valued("a")
    /\ values_map["a"] = <<"x">>
    /\ url = <<"x", "x", "x">>

\* C4: after a render query_params has the same length, keys and order as
\* the input; a pair's value differs only if its key is that of a
\* QueryParams location of a name with a value and it is the first pair
\* with that key; a QueryParams location never makes render fail.
C4_QueryParams ==
    /\ pc = "ok" =>
        /\ Len(result.query_params) = Len(request.query_params)
        /\ \A k \in 1..Len(request.query_params) :
              /\ result.query_params[k][1] = request.query_params[k][1]
              /\ result.query_params[k][2] # request.query_params[k][2] =>
                    /\ Targeted(Loc("QueryParams", request.query_params[k][1]))
                    /\ \A m \in 1..(k - 1) :
                          request.query_params[m][1] # request.query_params[k][1]
    /\ Failure => placeholders[i].locs[j].kind # "QueryParams"

\* Two pairs with the key p: the first was rewritten, the second still
\* holds its token.
C4_Witness ==
    /\ pc = "ok"
    /\ Len(request.query_params) = 2
    /\ request.query_params[1][1] = "p"
    /\ request.query_params[2][1] = "p"
    /\ result.query_params[1][2] # request.query_params[1][2]
    /\ result.query_params[2] = request.query_params[2]
    /\ Count(result.query_params[2][2], TokA) > 0

\* C5: a Headers(h) location of a name with a value makes render fail, with
\* no Request returned, when h is present and its value is not text or the
\* text after the replacement is no valid header value; when h is absent
\* the location changes nothing and render goes on.  render returns an
\* error only so.
C5_HeaderStep ==
    AtLocation("Headers") =>
        LET h == placeholders[i].locs[j].key
            tok == <<"{", "{", placeholders[i].name, "}", "}">>
            v == values_map[placeholders[i].name]
        IN  IF h \notin DOMAIN headers
            THEN /\ pc' = "loop"
                 /\ <<url, headers, query_params, body, result>>'
                        = <<url, headers, query_params, body, result>>
            ELSE IF \/ \E k \in 1..Len(headers[h]) : headers[h][k] \in {"OBS", "LF"}
                    \/ \E k \in 1..Len(LiteralSubst(headers[h], tok, v)) :
                            LiteralSubst(headers[h], tok, v)[k] = "LF"
                 THEN pc' = "err" /\ result' = NoRequest
                 ELSE /\ pc' = "loop"
                      /\ headers' = [headers EXCEPT ![h] = LiteralSubst(headers[h], tok, v)]
C5_HeaderErrorAtomic ==
    [][/\ C5_HeaderStep
       /\ pc' = "err" => (AtLocation("Headers") /\ result' = NoRequest)]_vars

\* render failed on a header after it had rewritten the url, and returned
\* no Request.
C5_Witness ==
    /\ pc = "err"
    /\ result = NoRequest
    /\ url # request.url

\* C6: a BodyForm location of a name with a value ends render in a panic,
\* with neither a Request nor an error, when the body is None, Raw or
\* Binary; on a FormData or XFormUrlEncoded body it never panics, and a
\* key the form does not hold changes nothing.  render panics only so.
C6_BodyFormStep ==
    AtLocation("BodyForm") =>
        IF body.kind \in {"None", "Raw", "Binary"}
        THEN pc' = "panic" /\ result' = NoRequest
        ELSE /\ pc' = "loop"
             /\ placeholders[i].locs[j].key \notin DOMAIN body.form => body' = body
C6_BodyFormPanic ==
    [][/\ C6_BodyFormStep
       /\ pc' = "panic" => (AtLocation("BodyForm") /\ result' = NoRequest)]_vars

\* render panicked on a body that is no form.
C6_Witness ==
    /\ pc = "panic"
    /\ result = NoRequest
    /\ request.body.kind \in {"None", "Raw", "Binary"}
    /\ placeholders[i].locs[j] = Loc("BodyForm", "f")

\* C9: names are processed in catalog order, each against the current copy
\* of the field.  With {{b}} as the value of a, and a value for b, the
\* {{b}} that a's Url location puts in the url is replaced by b's value if
\* and only if b comes after a in the catalog and has a Url location; so
\* the two orders of one catalog give different Requests.
C9_ChainByOrder ==
    (/\ pc = "ok"
     /\ Valued("a")
     /\ Valued("b")
     /\ values_map["a"] = TokB
     /\ Pos("a") > 0
     /\ HasLoc(placeholders[Pos("a")], LocUrl))
    => LET inserted == LiteralSubst(request.url, TokA, TokB)
           bUrl == Pos("b") > 0 /\ HasLoc(placeholders[Pos("b")], LocUrl)
       IN  /\ (bUrl /\ Pos("a") < Pos("b"))
                 => /\ result.url = LiteralSubst(inserted, TokB, values_map["b"])
                    /\ Count(result.url, TokB) = 0
           /\ (bUrl /\ Pos("b") < Pos("a"))
                 => /\ result.url = LiteralSubst(
                            LiteralSubst(request.url, TokB, values_map["b"]), TokA, TokB)
                    /\ Count(result.url, TokB) = Count(request.url, TokA)
           /\ ~bUrl => result.url = inserted

\* b came first: the {{b}} a's value brought in is still in the url.
C9_Witness ==
    /\ pc = "ok"
    /\ Valued("a")
    /\ Valued("b")
    /\ values_map["a"] = TokB
    /\ Pos("b") > 0
    /\ Pos("b") < Pos("a")
    /\ HasLoc(placeholders[Pos("a")], LocUrl)
    /\ HasLoc(placeholders[Pos("b")], LocUrl)
    /\ Count(request.url, TokB) = 0
    /\ Count(result.url, TokB) = 2

\* C10: a values slice that names a name more than once builds a Renderer
\* all the same, and the last pair of the name wins: values_map holds its
\* value, and render puts that value at every location of the name.
C10_LastWins ==
    pc # "new" =>
        /\ DOMAIN values_map = {values[k][1] : k \in 1..Len(values)}
        /\ \A k \in 1..Len(values) :
              (\A m \in (k + 1)..Len(values) : values[m][1] # values[k][1])
                  => /\ values_map[values[k][1]] = values[k][2]
                     /\ (pc = "ok" /\ placeholders[1].name = values[k][1]) =>
                            \A m \in 1..Len(placeholders[1].locs) :
                                LET loc == placeholders[1].locs[m]
                                IN  Site(request, loc).some =>
                                        Site(result, loc).v =
                                            LiteralSubst(Site(request, loc).v,
                                                <<"{", "{", values[k][1], "}", "}">>,
                                                values[k][2])

\* Two pairs for one name with different values, and a url rendered with
\* the second.
C10_Witness ==
    /\ pc = "ok"
    /\ Len(values) >= 2
    /\ values[1][1] = values[Len(values)][1]
    /\ values[1][2] # values[Len(values)][2]
    /\ placeholders[1] = Entry(values[1][1], <<LocUrl>>)
    /\ result.url = LiteralSubst(request.url, TokA, values[Len(values)][2])
    /\ result.url # LiteralSubst(request.url, TokA, values[1][2])

(***************************************************************************)
(* Properties of the body schema.                                          *)
(***************************************************************************)
RawKeys == {"raw", "text"}
BinaryKeys == {"binary", "file"}
FormDataKeys == {"form_data", "form-data", "multipart_form_data", "multipart-form-data"}
UrlEncodedKeys == {"x_form_url_encoded", "x-www-form-urlencoded", "form_urlencoded",
                   "form-urlencoded"}
\* The variant keys the claim lists.
ListedKeys == RawKeys \cup BinaryKeys \cup FormDataKeys \cup UrlEncodedKeys
VariantKeys == ListedKeys \cup {"none"}

\* The table under a form key reads as Text or as File.
FieldReads ==
    \E k \in {"text", "file"} : DOMAIN doc.field = {k} /\ doc.field[k]

\* C7 (as amended): a body table parses if and only if it holds exactly
\* one key, that key is a variant key or alias, and the value under it
\* reads as the variant's payload; it then yields that variant.  A table
\* of two or more keys, or of none, fails with "wanted exactly 1 element",
\* and so does, under a form-data key, a field table of two or more keys
\* or of none.
C7_ExactlyOneKey ==
    pc = "parsed" =>
        /\ Cardinality(DOMAIN doc.body) # 1 => parsed = Failed("wanted exactly 1 element")
        /\ parsed.ok <=>
              \E k \in VariantKeys :
                  /\ DOMAIN doc.body = {k}
                  /\ doc.body[k]
                  /\ k \in FormDataKeys => FieldReads
        /\ parsed.ok =>
              \A k \in DOMAIN doc.body :
                  /\ k \in RawKeys => parsed.variant = "Raw"
                  /\ k \in BinaryKeys => parsed.variant = "Binary"
                  /\ k \in FormDataKeys => parsed.variant = "FormData"
                  /\ k \in UrlEncodedKeys => parsed.variant = "XFormUrlEncoded"
                  /\ k = "none" => parsed.variant = "None"
        /\ (/\ \E k \in FormDataKeys : DOMAIN doc.body = {k} /\ doc.body[k]
            /\ Cardinality(DOMAIN doc.field) # 1)
              => parsed = Failed("wanted exactly 1 element")

\* Two variant keys, both with fitting values: no key is picked.
C7_Witness ==
    /\ pc = "parsed"
    /\ DOMAIN doc.body = {"raw", "binary"}
    /\ doc.body["raw"]
    /\ doc.body["binary"]
    /\ parsed = Failed("wanted exactly 1 element")

\* C7 as stated: a body table whose values all fit parses if and only if
\* exactly one of the listed variant keys is present.
C7_Original ==
    (/\ pc = "parsed"
     /\ "none" \notin DOMAIN doc.body
     /\ \A k \in DOMAIN doc.body : doc.body[k]
     /\ FieldReads)
    => (parsed.ok <=> Cardinality(DOMAIN doc.body \cap ListedKeys) = 1)

\* C8 (as amended): a `body` table with no key at all does not parse to
\* Body::None; it fails with "wanted exactly 1 element".
C8_EmptyBodyFails ==
    (pc = "parsed" /\ DOMAIN doc.body = {})
        => (~parsed.ok /\ parsed.error = "wanted exactly 1 element")

\* An empty `body` table was deserialised.
C8_Witness ==
    /\ pc = "parsed"
    /\ DOMAIN doc.body = {}
    /\ ~parsed.ok

\* C8 as stated: a `body` table that supplies none of the sub-fields parses
\* to Body::None.
C8_Original ==
    (pc = "parsed" /\ DOMAIN doc.body = {}) => parsed = Parsed("None")

====
